---- MODULE Spec2Model ----
(***************************************************************************)
(* Model of cmd/mandatory-tags/main.go: the check that every Terraform     *)
(* provider "aws" block of a namespace's resources/main.tf on a branch     *)
(* declares the mandatory default_tags.                                    *)
(*                                                                         *)
(* Text (file content, git output, messages) is a sequence of lexemes: an  *)
(* identifier, a quote, a brace, "=", "/", a space or a newline is one     *)
(* element.  Every regular expression of the program is translated to a    *)
(* matcher over such sequences that follows the character-level pattern    *)
(* lexeme by lexeme (\s is a space or a newline, [^}] any lexeme but "}").  *)
(***************************************************************************)
EXTENDS Integers, Sequences, FiniteSets

VARIABLES
    pc,            \* position of main
    help,          \* flag -h
    branchName,    \* flag -branch / BRANCH_NAME
    src,           \* the blocks of the file git show returned
    gitCalls,      \* external git processes run so far, in order
    namespace,     \* main: namespace
    resourcePath,  \* main: resourcePath
    content,       \* main: content / checkAllAwsProviders: content
    lines,         \* checkAllAwsProviders: lines (the occurrences, [start, end])
    i,             \* checkAllAwsProviders: number of loop iterations done
    providers,     \* checkAllAwsProviders: providers
    errors,        \* checkAllAwsProviders: errors
    providerBlock, \* loop local
    providerName,  \* loop local
    tagsMatch,     \* loop local
    tags,          \* loop local (findMissingTags: foundTags)
    missing,       \* loop local
    retProviders,  \* checkAllAwsProviders: returned slice
    retErr,        \* checkAllAwsProviders: returned error (Nil when none)
    stderr,        \* the error lines main has printed
    exitCode       \* the status the process exited with, NoExit while it runs

vars == <<pc, help, branchName, src, gitCalls, namespace, resourcePath, content,
          lines, i, providers, errors, providerBlock, providerName, tagsMatch,
          tags, missing, retProviders, retErr, stderr, exitCode>>

(***************************************************************************)
(* Lexemes                                                                 *)
(***************************************************************************)
Q  == "\""
SP == " "
NL == "\n"
LB == "{"
RB == "}"
EQ == "="
SLASH == "/"

Nil == <<>>
NoExit == <<>>

Range(s) == {s[k] : k \in 1..Len(s)}

Last(s) == s[Len(s)]

\* The lexeme at position p, or the end-of-input marker.
At(s, p) == IF p \in 1..Len(s) THEN s[p] ELSE "<eof>"

IsSpace(t) == t \in {SP, NL}

\* \s* from position p: the position of the first lexeme that is not white space.
RECURSIVE SkipSpace(_, _)
SkipSpace(s, p) == IF p <= Len(s) /\ IsSpace(s[p]) THEN SkipSpace(s, p + 1) ELSE p

\* The least element of a non-empty set of positions, 0 for the empty set.
First(S) == IF S = {} THEN 0 ELSE CHOOSE q \in S : \A r \in S : q <= r

\* The position of the first lexeme t at or after p, 0 when there is none.
IndexFrom(s, t, p) == First({q \in p..Len(s) : s[q] = t})

\* content[start:] of Go, with 1-based start.
SliceFrom(s, start) == SubSeq(s, start, Len(s))

(***************************************************************************)
(* Package variables                                                       *)
(***************************************************************************)
Host == "live.cloud-platform.service.justice.gov.uk"

basePath == <<"namespaces", SLASH, Host>>

requiredTags ==
    <<"business-unit", "application", "is-production", "owner",
      "namespace", "service-area", "source-code", "slack-channel">>

\* The lexemes that are [a-zA-Z][a-zA-Z0-9_-]* as a whole.
Identifiers ==
    Range(requiredTags) \cup
    {"Owner", "provider", "aws", "google", "alias", "replica", "default_tags",
     "tags", "locals", "x", "y", "z", "true", "ns", "a", "url"}

\* The pattern without its optional quotes: a quoted key is not a key.
tagPatternUnquoted(s, p) ==
    LET a == SkipSpace(s, p)
        e == SkipSpace(s, a + 1)
    IN  IF At(s, a) \in Identifiers /\ At(s, e) = EQ
        THEN <<e + 1, s[a]>>
        ELSE <<>>

\* tagPattern at a line start p:  ^\s*"?([a-zA-Z][a-zA-Z0-9_-]*)"?\s*=
\* <<end, key>> (end: the position after "="), or <<>> when it does not match.
tagPattern(s, p) ==
    LET a == SkipSpace(s, p)
        b == IF At(s, a) = Q THEN a + 1 ELSE a
        c == b + 1
        d == IF At(s, c) = Q THEN c + 1 ELSE c
        e == SkipSpace(s, d)
    IN  IF At(s, b) \in Identifiers /\ At(s, e) = EQ
        THEN <<e + 1, s[b]>>
        ELSE <<>>

\* (?m)^ : the start of the text, or the position after a newline.
LineStart(s, p) == p = 1 \/ At(s, p - 1) = NL

(***************************************************************************)
(* extractTags (main.go 213-225)                                           *)
(***************************************************************************)
\* tagPattern.FindAllStringSubmatch(tagBlock, -1): the leftmost match at or
\* after p, then the matches after its end; a match is <<whole, key>>.
\* The search goes from one line start to the next: the pattern is anchored.
RECURSIVE FindAllStringSubmatch(_, _)
FindAllStringSubmatch(s, p) ==
    LET q == First({r \in p..Len(s) : LineStart(s, r)})
        m == tagPattern(s, q)
    IN  IF q = 0 THEN <<>>
        ELSE IF m # <<>>
             THEN <<<<SubSeq(s, q, m[1] - 1), m[2]>>>> \o FindAllStringSubmatch(s, m[1])
             ELSE FindAllStringSubmatch(s, q + 1)

RECURSIVE AppendKeys(_, _)
AppendKeys(matches, k) ==
    IF k > Len(matches) THEN <<>>
    ELSE (IF Len(matches[k]) > 1 THEN <<matches[k][2]>> ELSE <<>>)
         \o AppendKeys(matches, k + 1)

\* The loop started at the second match.
extractTagsSkipFirst(tagBlock) ==
    LET matches == FindAllStringSubmatch(tagBlock, 1)
    IN  AppendKeys(matches, 2)

extractTags(tagBlock) ==
    LET matches == FindAllStringSubmatch(tagBlock, 1)
    IN  AppendKeys(matches, 1)

(***************************************************************************)
(* findMissingTags (main.go 186-199)                                       *)
(***************************************************************************)
\* The loop over requiredTags from index k: a required tag absent from
\* tagMap is appended.
RECURSIVE MissingFrom(_, _)
MissingFrom(tagMap, k) ==
    IF k > Len(requiredTags) THEN <<>>
    ELSE (IF requiredTags[k] \notin tagMap THEN <<requiredTags[k]>> ELSE <<>>)
         \o MissingFrom(tagMap, k + 1)

\* The presence check made on the lower-cased tag.
findMissingTagsFold(foundTags) ==
    LET tagMap == {IF t = "Owner" THEN "owner" ELSE t : t \in Range(foundTags)}
    IN  MissingFrom(tagMap, 1)

findMissingTags(foundTags) ==
    LET tagMap == Range(foundTags)
    IN  MissingFrom(tagMap, 1)

(***************************************************************************)
(* joinErrors (main.go 202-211)                                            *)
(***************************************************************************)
RECURSIVE JoinFrom(_, _)
JoinFrom(errs, k) ==
    IF k > Len(errs) THEN <<>>
    ELSE (IF k > 1 THEN <<NL>> ELSE <<>>) \o errs[k] \o JoinFrom(errs, k + 1)

\* Only the first message.
joinErrorsFirst(errs) == IF Len(errs) = 0 THEN <<>> ELSE errs[1]

joinErrors(errs) == JoinFrom(errs, 1)

(***************************************************************************)
(* extractProviderBlock (main.go 166-185)                                  *)
(***************************************************************************)
\* The loop over the characters from position p with the counters as they
\* stand: the prefix through the "}" that brings braceCount to 0 once a "{"
\* was seen, the whole input when the loop ends.
\* Characters that are no brace change nothing: the loop is followed from one
\* brace to the next.
RECURSIVE CountBraces(_, _, _, _)
CountBraces(s, p, braceCount, inBlock) ==
    LET q == First({r \in p..Len(s) : s[r] \in {LB, RB}})
    IN  IF q = 0 THEN s
        ELSE IF s[q] = LB THEN CountBraces(s, q + 1, braceCount + 1, TRUE)
        ELSE IF braceCount - 1 = 0 /\ inBlock
             THEN SubSeq(s, 1, q)
             ELSE CountBraces(s, q + 1, braceCount - 1, inBlock)

extractProviderBlock(s) == CountBraces(s, 1, 0, FALSE)

(***************************************************************************)
(* The patterns of checkAllAwsProviders (main.go 118, 126, 135)            *)
(***************************************************************************)
\* provider\s+"aws" at p: the position after the match, 0 when no match.
ProviderAwsAt(s, p) ==
    LET a == SkipSpace(s, p + 1)
    IN  IF At(s, p) = "provider" /\ a > p + 1
           /\ At(s, a) = Q /\ At(s, a + 1) = "aws" /\ At(s, a + 2) = Q
        THEN a + 3
        ELSE 0

\* FindAllStringIndex(content, -1): the matches left to right, [start, end).
RECURSIVE FindAllStringIndex(_, _)
FindAllStringIndex(s, p) ==
    LET q == First({r \in p..Len(s) : ProviderAwsAt(s, r) # 0})
    IN  IF q = 0 THEN <<>>
        ELSE <<<<q, ProviderAwsAt(s, q)>>>> \o FindAllStringIndex(s, ProviderAwsAt(s, q))

\* alias\s*=\s*"([^"]+)" at p: <<whole, value>>, <<>> when no match.
AliasAt(s, p) ==
    LET a == SkipSpace(s, p + 1)
        b == SkipSpace(s, a + 1)
        r == IndexFrom(s, Q, b + 1)
    IN  IF At(s, p) = "alias" /\ At(s, a) = EQ /\ At(s, b) = Q /\ r > b + 1
        THEN <<SubSeq(s, p, r), SubSeq(s, b + 1, r - 1)>>
        ELSE <<>>

\* (?s)default_tags\s*\{\s*tags\s*=\s*\{([^}]+)\} at p: <<whole, interior>>.
DefaultTagsAt(s, p) ==
    LET a == SkipSpace(s, p + 1)
        b == SkipSpace(s, a + 1)
        c == SkipSpace(s, b + 1)
        d == SkipSpace(s, c + 1)
        r == IndexFrom(s, RB, d + 1)
    IN  IF At(s, p) = "default_tags" /\ At(s, a) = LB /\ At(s, b) = "tags"
           /\ At(s, c) = EQ /\ At(s, d) = LB /\ r > d + 1
        THEN <<SubSeq(s, p, r), SubSeq(s, d + 1, r - 1)>>
        ELSE <<>>

\* aliasRegex.FindStringSubmatch: the leftmost match, <<>> (nil) when none.
aliasRegex(s) ==
    LET q == First({r \in 1..Len(s) : AliasAt(s, r) # <<>>})
    IN  IF q = 0 THEN <<>> ELSE AliasAt(s, q)

\* tagsRegex.FindStringSubmatch: the leftmost match, <<>> (nil) when none.
tagsRegex(s) ==
    LET q == First({r \in 1..Len(s) : DefaultTagsAt(s, r) # <<>>})
    IN  IF q = 0 THEN <<>> ELSE DefaultTagsAt(s, q)

(***************************************************************************)
(* The strings checkAllAwsProviders formats (main.go 129-131, 147, 151, 156)*)
(***************************************************************************)
DefaultName == <<"aws (default)">>

AliasName(alias) == <<"aws (alias: ">> \o alias \o <<")">>

\* %v of a []string: the elements between brackets, separated by a space.
RECURSIVE SpaceJoin(_, _)
SpaceJoin(s, k) ==
    IF k > Len(s) THEN <<>>
    ELSE (IF k > 1 THEN <<SP>> ELSE <<>>) \o <<s[k]>> \o SpaceJoin(s, k + 1)

MissingTagsMessage(name, miss) ==
    <<"(x) Provider '">> \o name \o <<"' is missing tags: ", "[">>
        \o SpaceJoin(miss, 1) \o <<"]">>

NoDefaultTagsMessage(name) ==
    <<"(x) Provider '">> \o name
        \o <<"' does not have default_tags block with all required tags">>

NoProvidersError == <<"(x) No AWS providers found in the file">>

(***************************************************************************)
(* One iteration of the loop of checkAllAwsProviders (main.go 120-153)     *)
(***************************************************************************)
\* The record put before the others.
RecordProviderFirst(provs, name, found) ==
    <<[name |-> name, tags |-> found]>> \o provs

\* main.go 140-143
RecordProvider(provs, name, found) ==
    Append(provs, [name |-> name, tags |-> found])

\* No message for a provider without default_tags.
ReportNoDefaultTagsSilent(errs, name) == errs

\* main.go 151
ReportNoDefaultTags(errs, name) == Append(errs, NoDefaultTagsMessage(name))

LoopBody(text, loc, provs, errs) ==
    LET start == loc[1]
        block == extractProviderBlock(SliceFrom(text, start))
        aliasMatch == aliasRegex(block)
        name == IF Len(aliasMatch) > 1 THEN AliasName(aliasMatch[2]) ELSE DefaultName
        tMatch == tagsRegex(block)
        found == IF Len(tMatch) > 1 THEN extractTags(tMatch[2]) ELSE <<>>
        miss == IF Len(tMatch) > 1 THEN findMissingTags(found) ELSE <<>>
    IN  [providerBlock |-> block,
         providerName |-> name,
         tagsMatch |-> tMatch,
         tags |-> found,
         missing |-> miss,
         providers |-> IF Len(tMatch) > 1
                       THEN RecordProvider(provs, name, found)
                       ELSE provs,
         errors |-> IF Len(tMatch) > 1
                    THEN IF Len(miss) > 0
                         THEN Append(errs, MissingTagsMessage(name, miss))
                         ELSE errs
                    ELSE ReportNoDefaultTags(errs, name)]

\* The return without the check for a file with no provider.
CheckReturnNoZero(locs, provs, errs) ==
    IF Len(errs) > 0 THEN <<Nil, joinErrors(errs)>>
    ELSE <<provs, Nil>>

\* The return of checkAllAwsProviders (main.go 155-163): <<providers, err>>.
CheckReturn(locs, provs, errs) ==
    IF Len(locs) = 0 THEN <<Nil, NoProvidersError>>
    ELSE IF Len(errs) > 0 THEN <<Nil, joinErrors(errs)>>
    ELSE <<provs, Nil>>

(***************************************************************************)
(* getNamespace (main.go 227-245)                                          *)
(***************************************************************************)
\* namespaces/live\.cloud-platform\.service\.justice\.gov\.uk/([^/]+)/ at p.
NamespaceAt(s, p) ==
    LET r == IndexFrom(s, SLASH, p + 4)
    IN  IF At(s, p) = basePath[1] /\ At(s, p + 1) = SLASH /\ At(s, p + 2) = Host
           /\ At(s, p + 3) = SLASH /\ r > p + 4
        THEN <<SubSeq(s, p, r), SubSeq(s, p + 4, r - 1)>>
        ELSE <<>>

\* pattern.FindStringSubmatch: the leftmost match, <<>> (nil) when none.
NamespacePattern(s) ==
    LET q == First({r \in 1..Len(s) : NamespaceAt(s, r) # <<>>})
    IN  IF q = 0 THEN <<>> ELSE NamespaceAt(s, q)

\* filepath.Join(basePath, namespace, "resources", "main.tf")
ResourcePath(ns) == basePath \o <<SLASH>> \o ns \o <<SLASH, "resources", SLASH, "main.tf">>

(***************************************************************************)
(* The input: resources/main.tf on the branch, and the output of git diff  *)
(***************************************************************************)
MaxBlocks == 2

\* The value the example of the specification gives each key.
ValueOf(key) ==
    CASE key = "business-unit" -> "x"
      [] key = "application" -> "y"
      [] key = "is-production" -> "true"
      [] key \in {"owner", "Owner"} -> "z"
      [] key = "namespace" -> "ns"
      [] key = "service-area" -> "a"
      [] key = "source-code" -> "url"
      [] OTHER -> "#c"

\* What separates two elements of a block: a newline and an indent, or a space.
Sep(layout) == IF layout = "lines" THEN <<NL, SP, SP>> ELSE <<SP>>

Close(layout) == IF layout = "lines" THEN <<NL>> ELSE <<SP>>

\* key = "value", the key quoted or not; interp: the value is "${var.v}".
Entry(key, quoted, interp) ==
    (IF quoted THEN <<Q, key, Q>> ELSE <<key>>) \o <<SP, EQ, SP, Q>>
        \o (IF interp THEN <<"$", LB, "var.v", RB>> ELSE <<ValueOf(key)>>) \o <<Q>>

RECURSIVE Entries(_, _, _)
Entries(keys, k, sh) ==
    IF k > Len(keys) THEN <<>>
    ELSE Sep(sh.layout) \o Entry(keys[k], sh.quoted, sh.interp /\ k = 2)
         \o Entries(keys, k + 1, sh)

Aws(alias, dt, keys, layout, quoted, interp, closed) ==
    [kind |-> "aws", alias |-> alias, dt |-> dt, keys |-> keys, layout |-> layout,
     quoted |-> quoted, interp |-> interp, closed |-> closed]

Other(kind) == [Aws("", FALSE, <<>>, "lines", FALSE, FALSE, TRUE) EXCEPT !.kind = kind]

\* The text of one block.
Render(sh) ==
    CASE sh.kind = "mention" ->
           \* a block of another kind with a comment that names the provider
           <<"locals", SP, LB, NL, SP, SP, "#", SP, "provider", SP, Q, "aws", Q, NL, RB>>
      [] sh.kind = "google" ->
           <<"provider", SP, Q, "google", Q, SP, LB, NL, RB>>
      [] OTHER ->
           <<"provider", SP, Q, "aws", Q, SP, LB>>
           \o (IF sh.alias # ""
               THEN Sep(sh.layout) \o <<"alias", SP, EQ, SP, Q, sh.alias, Q>>
               ELSE <<>>)
           \o (IF sh.dt
               THEN Sep(sh.layout) \o <<"default_tags", SP, LB>>
                    \o Sep(sh.layout) \o <<"tags", SP, EQ, SP, LB>>
                    \o Entries(sh.keys, 1, sh)
                    \o Close(sh.layout) \o <<RB>> \o Close(sh.layout) \o <<RB>>
               ELSE <<>>)
           \o (IF sh.closed THEN Close(sh.layout) \o <<RB>> ELSE <<>>)

\* The text of a file: its blocks, each ended by a newline.
RECURSIVE RenderFile(_, _)
RenderFile(blocks, k) ==
    IF k > Len(blocks) THEN <<>>
    ELSE Render(blocks[k]) \o <<NL>> \o RenderFile(blocks, k + 1)

Reverse(s) == [k \in 1..Len(s) |-> s[Len(s) + 1 - k]]

Without(key) == SelectSeq(requiredTags, LAMBDA t: t # key)

WrongCase == [k \in 1..Len(requiredTags) |->
                 IF requiredTags[k] = "owner" THEN "Owner" ELSE requiredTags[k]]

Dropped == {"business-unit", "namespace", "slack-channel"}

\* The blocks a file is made of.
Shapes ==
    {Aws(al, TRUE, requiredTags, lay, FALSE, FALSE, TRUE) :
        al \in {"", "replica"}, lay \in {"lines", "inline"}}
    \cup {Aws("", TRUE, Reverse(requiredTags), "lines", TRUE, FALSE, TRUE),
          Aws("", TRUE, requiredTags, "lines", FALSE, TRUE, TRUE),
          Aws("", TRUE, WrongCase, "lines", FALSE, FALSE, TRUE)}
    \cup {Aws("", TRUE, Without(key), "lines", FALSE, FALSE, TRUE) : key \in Dropped}
    \cup {Aws(al, FALSE, <<>>, "lines", FALSE, FALSE, cl) :
        al \in {"", "replica"}, cl \in BOOLEAN}
    \cup {Other("mention"), Other("google")}

Files == UNION {[1..n -> Shapes] : n \in 0..MaxBlocks}

NsPath(ns) == basePath \o <<SLASH, ns, SLASH, "resources", SLASH, "main.tf", NL>>

\* Outputs of git diff main...branch --name-only.
DiffOutputs ==
    {<<>>,
     <<"README.md", NL>>,
     NsPath("my-ns"),
     <<"README.md", NL>> \o NsPath("my-ns") \o NsPath("other-ns"),
     basePath \o <<SLASH, "README.md", NL>>}

(***************************************************************************)
(* main (main.go 32-78) and the steps of checkAllAwsProviders              *)
(***************************************************************************)
Idle ==
    /\ gitCalls = <<>>
    /\ namespace = Nil
    /\ resourcePath = Nil
    /\ content = Nil
    /\ lines = <<>>
    /\ i = 0
    /\ providers = <<>>
    /\ errors = <<>>
    /\ providerBlock = <<>>
    /\ providerName = <<>>
    /\ tagsMatch = <<>>
    /\ missing = <<>>
    /\ retProviders = Nil
    /\ retErr = Nil
    /\ stderr = <<>>
    /\ exitCode = NoExit

Init ==
    /\ pc = "start"
    /\ help \in BOOLEAN
    /\ branchName \in {"", "feature"}
    /\ src = <<>>
    /\ tags = <<>>
    /\ Idle

scanVars == <<lines, i, providers, errors, providerBlock, providerName, tagsMatch,
              tags, missing, retProviders, retErr>>

inputVars == <<help, branchName>>

\* main.go 36-39
MainHelp ==
    /\ pc = "start"
    /\ help
    /\ pc' = "exit"
    /\ exitCode' = <<0>>
    /\ UNCHANGED <<inputVars, src, gitCalls, namespace, resourcePath, content, scanVars, stderr>>

\* main.go 41-45
MainNoBranch ==
    /\ pc = "start"
    /\ ~help
    /\ branchName = ""
    /\ stderr' = Append(stderr, "Error: BRANCH_NAME must be set.")
    /\ pc' = "exit"
    /\ exitCode' = <<1>>
    /\ UNCHANGED <<inputVars, src, gitCalls, namespace, resourcePath, content, scanVars>>

\* The error of getNamespace printed, and main going on to read the file.
MainNamespaceErrorContinues ==
    /\ pc = "start"
    /\ ~help
    /\ branchName # ""
    /\ gitCalls' = Append(gitCalls, "diff")
    /\ stderr' = Append(stderr, "Error: Could not determine namespace")
    /\ pc' = "show"
    /\ UNCHANGED <<inputVars, src, namespace, resourcePath, content, scanVars, exitCode>>

\* main.go 47-51 with getNamespace failing: git diff fails, or no path matches.
MainNamespaceError ==
    /\ pc = "start"
    /\ ~help
    /\ branchName # ""
    /\ gitCalls' = Append(gitCalls, "diff")
    /\ \E ok \in BOOLEAN, out \in DiffOutputs :
          ~ok \/ Len(NamespacePattern(out)) <= 1
    /\ stderr' = Append(stderr, "Error: Could not determine namespace")
    /\ pc' = "exit"
    /\ exitCode' = <<1>>
    /\ UNCHANGED <<inputVars, src, namespace, resourcePath, content, scanVars>>

\* main.go 47-55 with getNamespace returning the first match.
MainNamespace ==
    /\ pc = "start"
    /\ ~help
    /\ branchName # ""
    /\ gitCalls' = Append(gitCalls, "diff")
    /\ \E out \in DiffOutputs :
          /\ Len(NamespacePattern(out)) > 1
          /\ namespace' = NamespacePattern(out)[2]
          /\ resourcePath' = ResourcePath(NamespacePattern(out)[2])
    /\ pc' = "show"
    /\ UNCHANGED <<inputVars, src, content, scanVars, stderr, exitCode>>

\* main.go 57-61 with getFileFromBranch (97-105) failing.
MainFileError ==
    /\ pc = "show"
    /\ gitCalls' = Append(gitCalls, "show")
    /\ stderr' = Append(stderr, "Error: Could not read file from branch")
    /\ pc' = "exit"
    /\ exitCode' = <<1>>
    /\ UNCHANGED <<inputVars, src, namespace, resourcePath, content, scanVars>>

\* main.go 57 with getFileFromBranch returning the file of the branch.
MainFile ==
    /\ pc = "show"
    /\ gitCalls' = Append(gitCalls, "show")
    /\ \E file \in Files :
          /\ src' = file
          /\ content' = RenderFile(file, 1)
    /\ pc' = "check"
    /\ UNCHANGED <<inputVars, namespace, resourcePath, scanVars, stderr, exitCode>>

\* main.go 63, 113-118: checkAllAwsProviders finds the occurrences.
CheckBegin ==
    /\ pc = "check"
    /\ lines' = FindAllStringIndex(content, 1)
    /\ i' = 0
    /\ providers' = <<>>
    /\ errors' = <<>>
    /\ pc' = "loop"
    /\ UNCHANGED <<inputVars, src, gitCalls, namespace, resourcePath, content, providerBlock,
                   providerName, tagsMatch, tags, missing, retProviders, retErr,
                   stderr, exitCode>>

\* main.go 120-153: one iteration of the loop.
CheckLoop ==
    /\ pc = "loop"
    /\ i < Len(lines)
    /\ LET r == LoopBody(content, lines[i + 1], providers, errors)
       IN  /\ providerBlock' = r.providerBlock
           /\ providerName' = r.providerName
           /\ tagsMatch' = r.tagsMatch
           /\ tags' = r.tags
           /\ missing' = r.missing
           /\ providers' = r.providers
           /\ errors' = r.errors
    /\ i' = i + 1
    /\ UNCHANGED <<pc, inputVars, src, gitCalls, namespace, resourcePath, content, lines,
                   retProviders, retErr, stderr, exitCode>>

\* main.go 155-163: the loop is over, checkAllAwsProviders returns.
CheckEnd ==
    /\ pc = "loop"
    /\ i = Len(lines)
    /\ retProviders' = CheckReturn(lines, providers, errors)[1]
    /\ retErr' = CheckReturn(lines, providers, errors)[2]
    /\ pc' = "report"
    /\ UNCHANGED <<inputVars, src, gitCalls, namespace, resourcePath, content, lines, i,
                   providers, errors, providerBlock, providerName, tagsMatch, tags,
                   missing, stderr, exitCode>>

\* main.go 64-67
MainScanError ==
    /\ pc = "report"
    /\ retErr # Nil
    /\ stderr' = stderr \o <<"Error: ">> \o retErr
    /\ pc' = "exit"
    /\ exitCode' = <<1>>
    /\ UNCHANGED <<inputVars, src, gitCalls, namespace, resourcePath, content, scanVars>>

\* main.go 69-78
MainSuccess ==
    /\ pc = "report"
    /\ retErr = Nil
    /\ pc' = "exit"
    /\ exitCode' = <<0>>
    /\ UNCHANGED <<inputVars, src, gitCalls, namespace, resourcePath, content, scanVars, stderr>>

Next ==
    \/ MainHelp
    \/ MainNoBranch
    \/ MainNamespaceError
    \/ MainNamespace
    \/ MainFileError
    \/ MainFile
    \/ CheckBegin
    \/ CheckLoop
    \/ CheckEnd
    \/ MainScanError
    \/ MainSuccess

Spec == Init /\ [][Next]_vars

(***************************************************************************)
(* findMissingTags on its own: the found tags are drawn from FoundLists    *)
(***************************************************************************)
MaxFound == 2

TagAlphabet == Range(requiredTags) \cup {"Owner", "tags"}

\* Every list of at most MaxFound tags, and every set of required tags in
\* the canonical and in the reverse order.
FoundLists ==
    UNION {[1..n -> TagAlphabet] : n \in 0..MaxFound}
    \cup {SelectSeq(requiredTags, LAMBDA t: t \in S) : S \in SUBSET Range(requiredTags)}
    \cup {Reverse(SelectSeq(requiredTags, LAMBDA t: t \in S)) :
            S \in SUBSET Range(requiredTags)}
    \cup {WrongCase}

InitTags ==
    /\ pc = "findMissingTags"
    /\ help = FALSE
    /\ branchName = ""
    /\ src = <<>>
    /\ tags \in FoundLists
    /\ Idle

\* main.go 145: missing := findMissingTags(tags)
FindMissing ==
    /\ pc = "findMissingTags"
    /\ missing' = findMissingTags(tags)
    /\ pc' = "found"
    /\ UNCHANGED <<inputVars, src, gitCalls, namespace, resourcePath, content, lines, i,
                   providers, errors, providerBlock, providerName, tagsMatch, tags,
                   retProviders, retErr, stderr, exitCode>>

NextTags == FindMissing

SpecTags == InitTags /\ [][NextTags]_vars

(***************************************************************************)
(* What the input says, read off its blocks and not off the scan           *)
(***************************************************************************)
\* The blocks whose text holds the words provider "aws", in file order.
Occ == SelectSeq(src, LAMBDA sh: sh.kind \in {"aws", "mention"})

\* A provider "aws" block with its closing brace.
WellFormed(sh) == sh.kind = "aws" /\ sh.closed

NameOf(sh) == IF sh.alias = "" THEN DefaultName ELSE AliasName(<<sh.alias>>)

\* The tags map of the block lists all the required keys.
HasAllKeys(sh) ==
    sh.kind = "aws" /\ sh.dt /\ Range(requiredTags) \subseteq Range(sh.keys)

\* Every key of the tags map starts a line, and no value holds a brace.
KeysOnLines(sh) == sh.layout = "lines" /\ ~sh.interp

\* The required tags the block does not list, in canonical order.
Lacking(sh) == SelectSeq(requiredTags, LAMBDA t: t \notin Range(sh.keys))

\* The lines of a text.
RECURSIVE SplitLines(_)
SplitLines(text) ==
    LET n == IndexFrom(text, NL, 1)
    IN  IF n = 0 THEN <<text>>
        ELSE <<SubSeq(text, 1, n - 1)>> \o SplitLines(SubSeq(text, n + 1, Len(text)))

Count(s, m) == Cardinality({k \in 1..Len(s) : s[k] = m})

Pos(t) == CHOOSE k \in 1..Len(requiredTags) : requiredTags[k] = t

Compliant(record) == Range(requiredTags) \subseteq Range(record.tags)

(***************************************************************************)
(* Properties                                                              *)
(***************************************************************************)
\* The loop has just handled occurrence i, whose block is Occ[i].
Handled == pc = "loop" /\ i >= 1 /\ i <= Len(Occ)

\* The step of the loop that handles block sh.
Handles(sh) ==
    /\ pc = "loop"
    /\ i < Len(lines)
    /\ i' = i + 1
    /\ i < Len(Occ)
    /\ sh = Occ[i + 1]

\* The step records the provider with its tags and adds no message.
ReportsNoMissing(sh) ==
    /\ Len(tagsMatch') > 1
    /\ tags' = sh.keys
    /\ missing' = <<>>
    /\ errors' = errors
    /\ providers' = Append(providers, [name |-> NameOf(sh), tags |-> sh.keys])

\* C1, as stated: a well-formed provider "aws" block whose default_tags.tags
\* map lists the 8 required keys, in any order and with any white space
\* around them, is recorded with its tags and gets no error message.
C1_AnyWhitespace ==
    [][\A sh \in Shapes :
          Handles(sh) /\ WellFormed(sh) /\ HasAllKeys(sh) => ReportsNoMissing(sh)]_vars

\* C1, amended: the same when every key of the map starts a line of its own
\* and no value of the map holds a closing brace.
C1_KeysOnLines ==
    [][\A sh \in Shapes :
          Handles(sh) /\ WellFormed(sh) /\ HasAllKeys(sh) /\ KeysOnLines(sh)
              => ReportsNoMissing(sh)]_vars

\* A block with its 8 keys quoted and in reverse order was recorded as compliant.
C1_Witness ==
    /\ Handled
    /\ HasAllKeys(Occ[i]) /\ KeysOnLines(Occ[i]) /\ Occ[i].quoted
    /\ tags = Reverse(requiredTags)
    /\ missing = <<>>
    /\ Last(providers).tags = tags

\* C2: findMissingTags returns exactly the required tags that do not occur
\* in the found tags, compared as they are written, in the order of
\* requiredTags; found tags that lack one required key give that key alone.
C2_ExactMissing ==
    pc = "found" =>
        /\ \A k \in 1..Len(requiredTags) :
              requiredTags[k] \in Range(missing) <=> requiredTags[k] \notin Range(tags)
        /\ Range(missing) \subseteq Range(requiredTags)
        /\ \A a, b \in 1..Len(missing) : a < b => Pos(missing[a]) < Pos(missing[b])
        /\ \A k \in 1..Len(requiredTags) :
              Range(tags) \cap Range(requiredTags) = Range(requiredTags) \ {requiredTags[k]}
                  => missing = <<requiredTags[k]>>

\* "Owner" is found, "owner" is still missing, and it is the only one.
C2_Witness ==
    /\ pc = "found"
    /\ tags = WrongCase
    /\ missing = <<"owner">>

\* C3: checkAllAwsProviders returns success only for a file with at least one
\* provider "aws" occurrence, and then every record it returns has all the
\* required tags; a file without occurrence gets the 'no AWS providers
\* found' error and no success.
C3_SuccessMeansCompliant ==
    pc = "report" =>
        /\ retErr = Nil =>
              /\ Len(Occ) >= 1
              /\ Len(retProviders) >= 1
              /\ \A k \in 1..Len(retProviders) : Compliant(retProviders[k])
        /\ Len(Occ) = 0 => retErr = NoProvidersError /\ retProviders = Nil

\* A successful scan of a file with two providers.
C3_Witness ==
    /\ pc = "report"
    /\ retErr = Nil
    /\ Len(retProviders) = 2
    /\ Len(Occ) = 2

\* C4: a well-formed provider "aws" block without default_tags block makes
\* the scan fail, with the message that the provider has no default_tags
\* block with all required tags, and the run ends with status 1.
C4_NoDefaultTags ==
    /\ Handled /\ WellFormed(Occ[i]) /\ ~Occ[i].dt =>
          /\ tagsMatch = <<>>
          /\ errors # <<>>
          /\ Last(errors) = NoDefaultTagsMessage(NameOf(Occ[i]))
    /\ \A j \in 1..Len(Occ) :
          pc \in {"report", "exit"} /\ WellFormed(Occ[j]) /\ ~Occ[j].dt =>
              /\ retErr # Nil
              /\ retProviders = Nil
              /\ \E n \in 1..Len(SplitLines(retErr)) :
                    SplitLines(retErr)[n] = NoDefaultTagsMessage(NameOf(Occ[j]))
              /\ pc = "exit" => exitCode = <<1>>

\* The run has ended with status 1 on a file whose second block has an alias
\* and no default_tags.
C4_Witness ==
    /\ pc = "exit"
    /\ exitCode = <<1>>
    /\ Len(Occ) = 2
    /\ WellFormed(Occ[2]) /\ ~Occ[2].dt /\ Occ[2].alias = "replica"
    /\ HasAllKeys(Occ[1])

\* The example of the specification, as written there, on one line.
ExampleText ==
    <<"provider", SP, Q, "aws", Q, SP, LB, SP, "default_tags", SP, LB, SP,
      "tags", SP, EQ, SP, LB, SP,
      "business-unit", SP, EQ, SP, Q, "x", Q, SP,
      "application", SP, EQ, SP, Q, "y", Q, SP,
      "is-production", SP, EQ, SP, Q, "true", Q, SP,
      "owner", SP, EQ, SP, Q, "z", Q, SP,
      "namespace", SP, EQ, SP, Q, "ns", Q, SP,
      "service-area", SP, EQ, SP, Q, "a", Q, SP,
      "source-code", SP, EQ, SP, Q, "url", Q, SP,
      "slack-channel", SP, EQ, SP, Q, "#c", Q, SP,
      RB, SP, RB, SP, RB, NL>>

\* The same block with a line for each element.
ExampleOnLines == <<Aws("", TRUE, requiredTags, "lines", FALSE, FALSE, TRUE)>>

\* The scan succeeds with the one provider 'aws (default)' and its 8 tags.
OneDefaultProvider ==
    /\ retErr = Nil
    /\ Len(retProviders) = 1
    /\ retProviders[1].name = DefaultName
    /\ Len(retProviders[1].tags) = 8
    /\ findMissingTags(retProviders[1].tags) = <<>>
    /\ missing = <<>>

\* C5, as stated: the example, exactly as the specification writes it, makes
\* the scan succeed with one provider 'aws (default)', 8 tags, none missing.
C5_ExampleAsWritten ==
    pc = "report" /\ content = ExampleText => OneDefaultProvider

\* C5, amended: the example with each of the 8 key assignments on a line of
\* its own makes the scan succeed with one provider 'aws (default)', 8 tags,
\* none missing.
C5_ExampleOnLines ==
    pc = "report" /\ src = ExampleOnLines => OneDefaultProvider

C5_Witness ==
    /\ pc = "report"
    /\ src = ExampleOnLines
    /\ retProviders = <<[name |-> DefaultName, tags |-> requiredTags]>>

\* The message a well-formed block must get, <<>> when it must get none or
\* the block is written in a way that C1 leaves open.
ExpectedMessage(sh) ==
    IF ~WellFormed(sh) THEN <<>>
    ELSE IF ~sh.dt THEN NoDefaultTagsMessage(NameOf(sh))
    ELSE IF KeysOnLines(sh) /\ ~HasAllKeys(sh)
         THEN MissingTagsMessage(NameOf(sh), Lacking(sh))
    ELSE <<>>

Expected ==
    SelectSeq([j \in 1..Len(Occ) |-> ExpectedMessage(Occ[j])], LAMBDA m: m # <<>>)

\* C6: when the scan fails, every occurrence has been scanned, and the error
\* holds one message for each non-compliant provider: its lines are the
\* messages of the loop, and each well-formed non-compliant block has its own.
C6_EveryOffender ==
    pc = "report" =>
        /\ i = Len(lines)
        /\ Len(lines) = Len(Occ)
        /\ errors # <<>> => SplitLines(retErr) = errors
        /\ \A n \in 1..Len(Expected) :
              Count(Expected, Expected[n]) <= Count(SplitLines(retErr), Expected[n])

\* Two providers lack tags, and the error names both.
C6_Witness ==
    /\ pc = "report"
    /\ Len(Expected) = 2
    /\ Len(SplitLines(retErr)) = 2
    /\ Expected[1] # Expected[2]

\* C7: branch check, git diff, git show and scan come in this order; a step
\* that fails ends the run with status 1 and nothing runs after it; there
\* are at most two git calls; status 0 after the scan means that the scan
\* found every provider compliant.
C7_Pipeline ==
    /\ gitCalls \in {<<>>, <<"diff">>, <<"diff", "show">>}
    /\ pc = "exit" <=> exitCode # NoExit
    /\ stderr # <<>> => pc = "exit" /\ exitCode = <<1>>
    /\ exitCode = <<1>> => stderr # <<>>
    /\ help \/ branchName = "" => gitCalls = <<>>
    /\ Len(gitCalls) = 2 => namespace # Nil /\ resourcePath = ResourcePath(namespace)
    /\ stderr = <<"Error: Could not determine namespace">> => gitCalls = <<"diff">>
    /\ stderr = <<"Error: Could not read file from branch">> =>
          content = Nil /\ lines = <<>> /\ i = 0 /\ retErr = Nil /\ retProviders = Nil
    /\ pc \in {"check", "loop", "report"} \/ lines # <<>> \/ retErr # Nil =>
          /\ gitCalls = <<"diff", "show">>
          /\ namespace # Nil
          /\ content = RenderFile(src, 1)
    /\ exitCode = <<0>> /\ ~help =>
          /\ gitCalls = <<"diff", "show">>
          /\ retErr = Nil
          /\ errors = <<>>
          /\ Len(lines) >= 1
          /\ Len(retProviders) = Len(lines)
          /\ \A k \in 1..Len(retProviders) : Compliant(retProviders[k])

\* A run that went through the four steps and ended with status 0.
C7_Witness ==
    /\ pc = "exit"
    /\ exitCode = <<0>>
    /\ ~help
    /\ gitCalls = <<"diff", "show">>
    /\ Len(retProviders) = 2

\* The position of the closing brace that matches the first opening brace of
\* s, 0 when there is none.
Balance(s, f, e) ==
    Cardinality({q \in f..e : s[q] = LB}) - Cardinality({q \in f..e : s[q] = RB})

MatchingBrace(s) ==
    LET f == IndexFrom(s, LB, 1)
    IN  IF f = 0 THEN 0
        ELSE First({e \in f..Len(s) : s[e] = RB /\ Balance(s, f, e) = 0})

\* C8: for input that starts at a provider "aws" occurrence and whose first
\* opening brace is balanced, extractProviderBlock returns the prefix that
\* ends at the closing brace matching this first opening brace.
C8_MatchingBrace ==
    Handled =>
        LET input == SliceFrom(content, lines[i][1])
        IN  MatchingBrace(input) # 0 =>
                providerBlock = SubSeq(input, 1, MatchingBrace(input))

\* The two fully tagged blocks of the specification, the second with the
\* alias "replica".
TwoProviders ==
    <<Aws("", TRUE, requiredTags, "lines", FALSE, FALSE, TRUE),
      Aws("replica", TRUE, requiredTags, "lines", FALSE, FALSE, TRUE)>>

\* C9: the records of a successful scan are in the order of the occurrences,
\* one for each, and the record of a well-formed block is named after its
\* alias, 'aws (default)' without one; the two blocks of the specification
\* give 'aws (default)' then 'aws (alias: replica)'.
C9_SourceOrder ==
    /\ pc = "report" /\ retErr = Nil =>
          /\ Len(retProviders) = Len(Occ)
          /\ \A j \in 1..Len(Occ) :
                WellFormed(Occ[j]) =>
                    retProviders[j] = [name |-> NameOf(Occ[j]), tags |-> Occ[j].keys]
    /\ pc = "report" /\ src = TwoProviders =>
          /\ retErr = Nil
          /\ retProviders =
                <<[name |-> <<"aws (default)">>, tags |-> requiredTags],
                  [name |-> <<"aws (alias: ", "replica", ")">>, tags |-> requiredTags]>>

C9_Witness ==
    /\ pc = "report"
    /\ src = TwoProviders
    /\ Len(retProviders) = 2
    /\ retProviders[1].name # retProviders[2].name

\* C10: the alias and the tags given to a provider "aws" block come from
\* this block, also in a file whose braces do not balance: a block without
\* default_tags is not recorded, and a block without alias is 'aws (default)'.
C10_OwnBlock ==
    Handled /\ Occ[i].kind = "aws" =>
        /\ ~Occ[i].dt => Len(tagsMatch) <= 1 /\ Len(providers) < i
        /\ Occ[i].alias = "" => providerName = DefaultName

====
